---------------------------- MODULE Spec2Model ----------------------------
(***************************************************************************)
(* A state-machine model of scripts/temperature-map.js: the temperature    *)
(* bundle loader, the per-country trend aggregator, the time-index         *)
(* synchronisation (slider, playback timer, heatmap, sidebar charts) and   *)
(* the absolute/anomaly mode switch.                                       *)
(*                                                                         *)
(* Strings that the code inspects (date keys) are sequences of character   *)
(* codes, so that sort(), startsWith(), split('-') and the d3 date parser  *)
(* are computed on the characters.  JavaScript numbers are exact           *)
(* fractions [n, d] or the value NaN; null and undefined are kept apart.   *)
(***************************************************************************)
EXTENDS Integers, Sequences, FiniteSets, TLC

(***************************************************************************)
(* Bounds of the model.                                                    *)
(***************************************************************************)
\* how many sidebar items may exist at once (attached, or detached with
\* their deferred population still to run)
MaxItems == 2
\* how many interval timers may run at once
MaxTimers == 2
\* how many requestAnimationFrame callbacks may be queued at once
MaxFrames == 1

(***************************************************************************)
(* Characters and strings.                                                 *)
(***************************************************************************)
ChSpace == 32
ChDash == 45
ChZero == 48
ChColon == 58

IsDigit(c) == c >= ChZero /\ c <= ChZero + 9

\* the decimal digits of n, zero-padded to width w
RECURSIVE Pad(_, _)
Pad(n, w) == IF w = 0 THEN << >> ELSE Append(Pad(n \div 10, w - 1), ChZero + (n % 10))

\* "YYYY-MM-DD"
PlainKey(y, m, d) == Pad(y, 4) \o <<ChDash>> \o Pad(m, 2) \o <<ChDash>> \o Pad(d, 2)

\* "YYYY-MM-DD 00:00:00"
StampKey(y, m, d) ==
    PlainKey(y, m, d) \o <<ChSpace>> \o Pad(0, 2) \o <<ChColon>> \o Pad(0, 2) \o <<ChColon>> \o Pad(0, 2)

\* the value of a string of digits
RECURSIVE DigitsValue(_)
DigitsValue(s) ==
    IF s = << >> THEN 0 ELSE 10 * DigitsValue(SubSeq(s, 1, Len(s) - 1)) + (s[Len(s)] - ChZero)

\* s < t in the order Array.prototype.sort() uses without a comparator:
\* code unit by code unit, a proper prefix first
RECURSIVE LexLess(_, _)
LexLess(s, t) ==
    IF t = << >> THEN FALSE
    ELSE IF s = << >> THEN TRUE
    ELSE IF s[1] # t[1] THEN s[1] < t[1]
    ELSE LexLess(Tail(s), Tail(t))

\* String.prototype.startsWith
StartsWith(s, p) == Len(s) >= Len(p) /\ SubSeq(s, 1, Len(p)) = p

\* String.prototype.split(sep) for a one-character separator: the pieces
\* between one separator (or the start) and the next (or the end)
Split(s, sep) ==
    LET at == {i \in 1..Len(s) : s[i] = sep}
        pieces == Cardinality(at) + 1
        cut == [k \in 0..pieces |->
                   IF k = 0 THEN 0
                   ELSE IF k = pieces THEN Len(s) + 1
                   ELSE CHOOSE p \in at : Cardinality({q \in at : q < p}) = k - 1]
    IN  [k \in 1..pieces |-> SubSeq(s, cut[k - 1] + 1, cut[k] - 1)]

\* Array.prototype.sort() of a set of distinct strings
RECURSIVE SortKeys(_)
SortKeys(S) ==
    IF S = {} THEN << >>
    ELSE LET least == CHOOSE s \in S : \A t \in S \ {s} : LexLess(s, t)
         IN  <<least>> \o SortKeys(S \ {least})

(***************************************************************************)
(* JavaScript values: numbers as fractions, NaN, null, undefined.          *)
(***************************************************************************)
\* (records with different fields, so that any two values can be compared)
NaN == [nan |-> TRUE]
Null == [null |-> TRUE]
Undefined == [undef |-> TRUE]

Num(n) == [n |-> n, d |-> 1]
IsNum(v) == v # NaN /\ v # Null /\ v # Undefined

\* an array and an object (a map from keys to values) as values
Arr(s) == [items |-> s]
Obj(f) == [map |-> f]

\* ToNumber
ToNumber(v) == IF v = Null THEN Num(0) ELSE IF v = Undefined THEN NaN ELSE v

\* a - b
JsSub(a, b) ==
    LET x == ToNumber(a)
        y == ToNumber(b)
    IN  IF x = NaN \/ y = NaN THEN NaN
        ELSE [n |-> x.n * y.d - y.n * x.d, d |-> x.d * y.d]

\* a + b
JsAdd(a, b) ==
    LET x == ToNumber(a)
        y == ToNumber(b)
    IN  IF x = NaN \/ y = NaN THEN NaN
        ELSE [n |-> x.n * y.d + y.n * x.d, d |-> x.d * y.d]

\* a / k for a positive integer k
JsDiv(a, k) ==
    LET x == ToNumber(a)
    IN  IF x = NaN THEN NaN ELSE [n |-> x.n, d |-> x.d * k]

\* numeric equality and order of two numbers (never true of NaN)
NumEq(a, b) == IsNum(a) /\ IsNum(b) /\ a.n * b.d = b.n * a.d
NumLess(a, b) == IsNum(a) /\ IsNum(b) /\ a.n * b.d < b.n * a.d

\* s[i] for a 0-based index into the sequence s: undefined beyond the end
At(s, i) == IF i >= 0 /\ i < Len(s) THEN s[i + 1] ELSE Undefined


(***************************************************************************)
(* Constants of the program.                                               *)
(***************************************************************************)
MAP_WIDTH == 960
MAP_HEIGHT == 480
\* d3.geoEquirectangular().scale(153)
ProjectionScale == 153
\* the baseline year of loadTemperatureData, as the string "2015"
BaselineYear == Pad(2015, 4)

(***************************************************************************)
(* The external collaborators: the projection, the geometry library, the   *)
(* topology document and the data bundle.                                  *)
(***************************************************************************)
Coord(lon, lat) == [lon |-> lon, lat |-> lat]

\* coordinates for which the projection yields no screen point
OffProjection == {Coord(20, 95)}

\* projection(d): the equirectangular screen point of [lon, lat] (a radian
\* taken as 17453/1000000 degrees), or null
projection(c) ==
    IF c \in OffProjection THEN Null
    ELSE [x |-> [n |-> (MAP_WIDTH \div 2) * 1000000 + ProjectionScale * 17453 * c.lon, d |-> 1000000],
          y |-> [n |-> (MAP_HEIGHT \div 2) * 1000000 - ProjectionScale * 17453 * c.lat, d |-> 1000000]]

\* the features of the topology document: an id, a display name and the
\* grid coordinates the boundary contains
Features ==
    { [id |-> "AAA", name |-> "Aland", region |-> {Coord(0, 0), Coord(20, 95)}],
      [id |-> "BBB", name |-> "Borduria", region |-> {Coord(10, 10)}] }

\* d3.geoContains(feature, coord)
geoContains(feature, c) == c \in feature.region

getCountryId(feature) == feature.id
getCountryName(feature) == feature.name
CountryIds == {getCountryId(f) : f \in Features}
FeatureOf(id) == CHOOSE f \in Features : getCountryId(f) = id

\* the JSON payloads the archive may hold: the example of the
\* specification; one with time-stamped keys, a point off the projection, a
\* month without a baseline record and no point inside BBB; one with two
\* baseline-year records in the same month and a null reading; one without
\* records; and two that lack a field
ExampleBundle ==
    [coords |-> Arr(<<Coord(0, 0), Coord(10, 10)>>),
     temperatures |-> Obj((PlainKey(2016, 1, 1) :> <<Num(282), Num(285)>>) @@
                      (PlainKey(2015, 1, 1) :> <<Num(280), Num(290)>>)),
     data |-> Undefined]

StampedBundle ==
    [coords |-> Arr(<<Coord(0, 0), Coord(20, 95)>>),
     temperatures |-> Undefined,
     data |-> Obj((StampKey(2016, 3, 1) :> <<Num(284), Num(255)>>) @@
                  (StampKey(2015, 1, 1) :> <<Num(280), Num(250)>>) @@
                  (StampKey(2016, 1, 1) :> <<Num(282), Num(257)>>))]

RepeatedMonthBundle ==
    [coords |-> Arr(<<Coord(0, 0), Coord(10, 10)>>),
     temperatures |-> Obj((StampKey(2015, 1, 15) :> <<Num(284), Null>>) @@
                          (StampKey(2015, 1, 1) :> <<Num(280), Num(290)>>)),
     data |-> Undefined]

EmptyBundle ==
    [coords |-> Arr(<<Coord(0, 0), Coord(10, 10)>>),
     temperatures |-> Obj(<< >>),
     data |-> Undefined]

NoCoordsBundle ==
    [coords |-> Undefined,
     temperatures |-> Obj(PlainKey(2015, 1, 1) :> <<Num(280), Num(290)>>),
     data |-> Undefined]

NoTemperaturesBundle ==
    [coords |-> Arr(<<Coord(0, 0), Coord(10, 10)>>),
     temperatures |-> Undefined,
     data |-> Undefined]

Bundles ==
    {ExampleBundle, StampedBundle, RepeatedMonthBundle, EmptyBundle,
     NoCoordsBundle, NoTemperaturesBundle}

\* a payload with a single record
SingleBundle ==
    [coords |-> Arr(<<Coord(0, 0), Coord(10, 10)>>),
     temperatures |-> Obj(StampKey(2015, 1, 1) :> <<Num(280), Num(290)>>),
     data |-> Undefined]

\* the payloads and the countries of the runs that follow the playback
PlaybackBundles == {StampedBundle, SingleBundle, NoCoordsBundle, NoTemperaturesBundle}
PlaybackFeatures == {f \in Features : getCountryId(f) = "AAA"}

\* parsedData.temperatures || parsedData.data
TemperaturesOf(parsedData) ==
    IF parsedData.temperatures # Undefined THEN parsedData.temperatures ELSE parsedData.data

\* a payload the processing part of loadTemperatureData gets through
Processable(parsedData) ==
    parsedData.coords # Undefined /\ TemperaturesOf(parsedData) # Undefined

\* the date keys of the payloads, and dateStr.split('-') of each of them
DateKeys ==
    UNION {DOMAIN TemperaturesOf(b).map :
              b \in {c \in Bundles \cup PlaybackBundles : TemperaturesOf(c) # Undefined}}
SplitDash == [dateStr \in DateKeys |-> Split(dateStr, ChDash)]

(***************************************************************************)
(* Dates.                                                                  *)
(***************************************************************************)
\* dateParser = d3.timeParse("%Y-%m-%d %H:%M:%S"): the parsed date (year,
\* month 0..11) or null when the string does not have that form
dateParser(s) ==
    IF /\ Len(s) = 19
       /\ s[5] = ChDash /\ s[8] = ChDash /\ s[11] = ChSpace
       /\ s[14] = ChColon /\ s[17] = ChColon
       /\ \A i \in (1..19) \ {5, 8, 11, 14, 17} : IsDigit(s[i])
    THEN [year |-> DigitsValue(SubSeq(s, 1, 4)), month |-> DigitsValue(SubSeq(s, 6, 7)) - 1]
    ELSE Null

(***************************************************************************)
(* The state of the page.                                                  *)
(***************************************************************************)
VARIABLES
    pc,                 \* where init() and loadTemperatureData() stand
    statusText,         \* #current-time-display: [text |-> ..] or [key |-> a date key]
    zoomReady,          \* setupZoom has run
    rawCoords,          \* Arr of [lon, lat], or undefined
    screenCoords,       \* sequence of screen points or null
    allTemperatureData, \* null, or Obj of date key -> readings
    timePoints,         \* the sorted date keys
    baselineData,       \* month ("01".."12") -> readings of the baseline year
    slider,             \* #time-slider: max, value, disabled
    controlsReady,      \* setupControls has registered the listeners
    isPlaying,
    animationInterval,  \* the id setInterval returned last (0: null)
    timers,             \* the ids of the interval timers that are running
    isAnomalyMode,
    currentColorScale,
    legend,             \* what updateLegend drew last
    revealedCountries,
    revealedClass,      \* the country paths with class country--revealed
    borderStyle,        \* country id -> stroke style of its border path
    items,              \* every <li> created: item id -> its state
    list,               \* #selection-list: the attached items in document order
    timeouts,           \* items whose deferred population is still to run
    frames,             \* queued requestAnimationFrame callbacks
    heatmap             \* what renderHeatmap drew last

vars ==
    <<pc, statusText, zoomReady, rawCoords, screenCoords, allTemperatureData,
      timePoints, baselineData, slider, controlsReady, isPlaying,
      animationInterval, timers, isAnomalyMode, currentColorScale,
      legend, revealedCountries, revealedClass, borderStyle, items, list,
      timeouts, frames, heatmap>>

dataVars == <<rawCoords, screenCoords, allTemperatureData, timePoints, baselineData>>
playVars == <<isPlaying, animationInterval, timers>>
modeVars == <<isAnomalyMode, currentColorScale, legend>>
countryVars == <<revealedCountries, revealedClass, borderStyle>>

Text(s) == [text |-> s]
Key(k) == [key |-> k]

(***************************************************************************)
(* The module-level variables the rendering and aggregation functions      *)
(* read, as one record g: a handler that assigns some of them and then     *)
(* calls such a function passes the values it has just assigned.           *)
(***************************************************************************)
Globals ==
    [rawCoords |-> rawCoords, screenCoords |-> screenCoords,
     allTemperatureData |-> allTemperatureData, timePoints |-> timePoints,
     baselineData |-> baselineData, isAnomalyMode |-> isAnomalyMode,
     currentColorScale |-> currentColorScale]

(***************************************************************************)
(* loadTemperatureData, lines 113-135: the processing of the parsed JSON.  *)
(***************************************************************************)
\* a variant that leaves the points without a projection out
RECURSIVE ProjectAllCompact(_)
ProjectAllCompact(coords) ==
    IF coords = << >> THEN << >>
    ELSE (IF projection(Head(coords)) = Null THEN << >> ELSE <<projection(Head(coords))>>)
         \o ProjectAllCompact(Tail(coords))

\* rawCoords.map(d => { const p = projection(d); return p ? {x, y} : null })
ProjectAll(coords) == [i \in 1..Len(coords) |-> projection(coords[i])]

\* the forEach of lines 127-135 over the date keys tp, from the map acc
RECURSIVE ExtractBaseline(_, _, _)
ExtractBaseline(tp, data, acc) ==
    IF tp = << >> THEN acc
    ELSE LET dateStr == Head(tp)
             parts == SplitDash[dateStr]
             next == IF StartsWith(dateStr, BaselineYear) /\ Len(parts) > 1
                     THEN (parts[2] :> data[dateStr]) @@ acc
                     ELSE acc
         IN  ExtractBaseline(Tail(tp), data, next)

(***************************************************************************)
(* calculateCountryTrend                                                   *)
(***************************************************************************)
\* baselineData[dateStr.split('-')[1]]: Arr of readings, or undefined
BaselineFor(g, dateStr) ==
    LET parts == SplitDash[dateStr]
    IN  IF Len(parts) > 1 /\ parts[2] \in DOMAIN g.baselineData
        THEN Arr(g.baselineData[parts[2]])
        ELSE Undefined

\* the loop of lines 553-558 from index i on: the indices of the Sample
\* Points the feature contains, in order
RECURSIVE SelectIndices(_, _, _)
SelectIndices(feature, coords, i) ==
    IF i >= Len(coords) THEN << >>
    ELSE (IF geoContains(feature, coords[i + 1]) THEN <<i>> ELSE << >>)
         \o SelectIndices(feature, coords, i + 1)

\* the forEach of lines 575-582: the sum over the indices idx, from sum
RECURSIVE SumOver(_, _, _, _, _)
SumOver(idx, temps, anomaly, baselineTemps, sum) ==
    IF idx = << >> THEN sum
    ELSE LET raw == At(temps, Head(idx))
             val == IF anomaly /\ baselineTemps # Undefined
                    THEN JsSub(raw, At(baselineTemps.items, Head(idx)))
                    ELSE raw
         IN  SumOver(Tail(idx), temps, anomaly, baselineTemps, JsAdd(sum, val))

\* a variant that divides by the number of all Sample Points
TrendEntryOverAll(g, dateStr, indicesInCountry) ==
    LET temps == g.allTemperatureData.map[dateStr]
        baselineTemps == IF g.isAnomalyMode THEN BaselineFor(g, dateStr) ELSE Undefined
        sum == SumOver(indicesInCountry, temps, g.isAnomalyMode, baselineTemps, Num(0))
    IN  [date |-> dateParser(dateStr),
         val |-> JsDiv(sum, Len(g.rawCoords.items)),
         rawDate |-> dateStr]

\* lines 562-589: the entry of the series for one date key
TrendEntry(g, dateStr, indicesInCountry) ==
    LET temps == g.allTemperatureData.map[dateStr]
        baselineTemps == IF g.isAnomalyMode THEN BaselineFor(g, dateStr) ELSE Undefined
        sum == SumOver(indicesInCountry, temps, g.isAnomalyMode, baselineTemps, Num(0))
        count == Len(indicesInCountry)
    IN  [date |-> dateParser(dateStr),
         val |-> IF count > 0 THEN JsDiv(sum, count) ELSE Num(0),
         rawDate |-> dateStr]

\* a variant that leaves the last date key out
calculateCountryTrendShort(g, feature) ==
    IF g.rawCoords = Undefined \/ Len(g.rawCoords.items) = 0 THEN Null
    ELSE LET indicesInCountry == SelectIndices(feature, g.rawCoords.items, 0)
         IN  IF Len(indicesInCountry) = 0 THEN Null
             ELSE Arr([k \in 1..(Len(g.timePoints) - 1) |->
                          TrendEntry(g, g.timePoints[k], indicesInCountry)])

\* a variant that returns an empty series where no Sample Point is contained
calculateCountryTrendNoSentinel(g, feature) ==
    IF g.rawCoords = Undefined \/ Len(g.rawCoords.items) = 0 THEN Null
    ELSE LET indicesInCountry == SelectIndices(feature, g.rawCoords.items, 0)
         IN  IF Len(indicesInCountry) = 0 THEN Arr(<< >>)
             ELSE Arr([k \in 1..Len(g.timePoints) |->
                          TrendEntry(g, g.timePoints[k], indicesInCountry)])

\* null, or Arr of the series
calculateCountryTrend(g, feature) ==
    IF g.rawCoords = Undefined \/ Len(g.rawCoords.items) = 0 THEN Null
    ELSE LET indicesInCountry == SelectIndices(feature, g.rawCoords.items, 0)
         IN  IF Len(indicesInCountry) = 0 THEN Null
             ELSE Arr([k \in 1..Len(g.timePoints) |->
                          TrendEntry(g, g.timePoints[k], indicesInCountry)])

(***************************************************************************)
(* Number formatting and the d3 reductions used by the statistics.         *)
(***************************************************************************)
RECURSIVE Pow10(_)
Pow10(k) == IF k = 0 THEN 1 ELSE 10 * Pow10(k - 1)

\* Number.prototype.toFixed(digits): the decimal with that many digits as
\* the integer of its last digit's units, ties away from zero; "NaN" for NaN
toFixed(v, digits) ==
    IF v = NaN THEN NaN
    ELSE LET n == v.n * Pow10(digits)
             q == IF n >= 0 THEN (2 * n + v.d) \div (2 * v.d)
                  ELSE 0 - ((2 * (0 - n) + v.d) \div (2 * v.d))
         IN  [scaled |-> q, digits |-> digits]

\* the numbers of a sequence of values (d3 skips null, undefined and NaN)
Numbers(values) == {i \in 1..Len(values) : IsNum(values[i])}

\* d3.min, d3.max
d3min(values) ==
    IF Numbers(values) = {} THEN Undefined
    ELSE values[CHOOSE i \in Numbers(values) :
                    \A j \in Numbers(values) : ~NumLess(values[j], values[i])]
d3max(values) ==
    IF Numbers(values) = {} THEN Undefined
    ELSE values[CHOOSE i \in Numbers(values) :
                    \A j \in Numbers(values) : ~NumLess(values[i], values[j])]

RECURSIVE SumNumbers(_)
SumNumbers(values) ==
    IF values = << >> THEN Num(0)
    ELSE IF IsNum(Head(values)) THEN JsAdd(Head(values), SumNumbers(Tail(values)))
    ELSE SumNumbers(Tail(values))

\* d3.mean
d3mean(values) ==
    IF Numbers(values) = {} THEN Undefined
    ELSE JsDiv(SumNumbers(values), Cardinality(Numbers(values)))

(***************************************************************************)
(* A sidebar item: the <li> addToSelectionList creates, with its           *)
(* .stats-box and its .chart-container.                                    *)
(*   html      what the chart container holds: "loading" (the template's   *)
(*             text), "empty", "nodata", "svg" (an svg without a chart),   *)
(*             "chart" (a drawn chart)                                     *)
(*   chart     the mode the drawn chart was drawn in, or null              *)
(*   marker    the sync marker: null while hidden, else the index shown    *)
(*   chartMeta container.chartMeta: null or the stored series              *)
(*   stats     the stats box: its display style and its texts              *)
(*   trendData what calculateCountryTrend returned last for the item       *)
(***************************************************************************)
Dash == [dash |-> TRUE]

NewItem(id, feature) ==
    [countryId |-> id, featureData |-> feature, html |-> "loading",
     chart |-> Null, marker |-> Null, chartMeta |-> Null,
     stats |-> [display |-> "template", text |-> Null],
     trendData |-> Undefined]

Unit(anomaly) == IF anomaly THEN "C" ELSE "K"

\* the month test of lines 737-749
SeasonOf(m) ==
    IF m = 11 \/ m = 0 \/ m = 1 THEN "Winter"
    ELSE IF m >= 2 /\ m <= 4 THEN "Spring"
    ELSE IF m >= 5 /\ m <= 7 THEN "Summer"
    ELSE "Autumn"

\* the values of the entries of data that fall in a season
RECURSIVE SeasonValues(_, _)
SeasonValues(data, season) ==
    IF data = << >> THEN << >>
    ELSE (IF SeasonOf(Head(data).date.month) = season THEN <<Head(data).val>> ELSE << >>)
         \o SeasonValues(Tail(data), season)

\* s.sum, from 0 by +=
RECURSIVE SumAll(_)
SumAll(values) ==
    IF values = << >> THEN Num(0)
    ELSE JsAdd(SumAll(SubSeq(values, 1, Len(values) - 1)), values[Len(values)])

\* getAvg of line 752 for a season
getAvg(data, season) ==
    LET values == SeasonValues(data, season)
    IN  IF Len(values) > 0 THEN toFixed(JsDiv(SumAll(values), Len(values)), 1) ELSE Dash

\* updateCountryStats(statsContainer, data): the stats box afterwards, and
\* whether the call threw (d.date is null, or avg is undefined)
updateCountryStats(g, stats, data) ==
    IF data = Null \/ Len(data.items) = 0
    THEN [stats |-> [stats EXCEPT !.display = "none"], threw |-> FALSE]
    ELSE LET values == [k \in 1..Len(data.items) |-> data.items[k].val]
             min == d3min(values)
             max == d3max(values)
             avg == d3mean(values)
             shown == [stats EXCEPT !.display = "flex"]
         IN  IF \E k \in 1..Len(data.items) : data.items[k].date = Null
             THEN [stats |-> shown, threw |-> TRUE]
             ELSE IF avg = Undefined
             THEN [stats |-> shown, threw |-> TRUE]
             ELSE [stats |-> [display |-> "flex",
                              text |-> [unit |-> Unit(g.isAnomalyMode),
                                        avg |-> toFixed(avg, 1),
                                        max |-> toFixed(max, 1),
                                        min |-> toFixed(min, 1),
                                        spring |-> getAvg(data.items, "Spring"),
                                        summer |-> getAvg(data.items, "Summer"),
                                        autumn |-> getAvg(data.items, "Autumn"),
                                        winter |-> getAvg(data.items, "Winter")]],
                   threw |-> FALSE]

\* drawDetailedChart(container, data, countryId) on the item's container:
\* the item afterwards, and whether the call threw (d3.extent of null)
drawDetailedChart(g, item, data) ==
    IF data = Null
    THEN [item |-> [item EXCEPT !.html = "svg"], threw |-> TRUE]
    ELSE [item |-> [item EXCEPT !.html = "chart",
                                !.chart = [anomaly |-> g.isAnomalyMode],
                                !.marker = Null,
                                !.chartMeta = [data |-> data]],
          threw |-> FALSE]

\* the body of the forEach of updateChartsSync for one container
SyncContainer(g, item, timeIndex) ==
    IF item.chartMeta = Null THEN item
    ELSE LET currentPoint == At(item.chartMeta.data.items, timeIndex)
         IN  IF currentPoint = Undefined \/ item.html # "chart" THEN item
             ELSE [item EXCEPT !.marker = [index |-> timeIndex,
                                           label |-> toFixed(currentPoint.val, 2),
                                           unit |-> Unit(g.isAnomalyMode)]]

\* the ids of the attached items
Attached(lst) == {lst[i] : i \in 1..Len(lst)}

\* updateChartsSync(timeIndex) on the items its of which lst are attached
updateChartsSync(g, its, lst, timeIndex) ==
    [i \in DOMAIN its |-> IF i \in Attached(lst) THEN SyncContainer(g, its[i], timeIndex)
                          ELSE its[i]]

(***************************************************************************)
(* renderHeatmap                                                           *)
(***************************************************************************)
\* lines 168-189 from index i on: the points to draw
RECURSIVE RenderData(_, _, _, _)
RenderData(g, currentTemps, baselineTemps, i) ==
    IF i >= Len(g.screenCoords) THEN << >>
    ELSE LET coord == g.screenCoords[i + 1]
             raw == At(currentTemps, i)
             baseVal == IF baselineTemps = Undefined THEN Undefined
                        ELSE At(baselineTemps.items, i)
             val == IF g.isAnomalyMode /\ baselineTemps # Undefined
                    THEN (IF baseVal # Undefined /\ baseVal # Null
                          THEN JsSub(raw, baseVal) ELSE Num(0))
                    ELSE raw
         IN  (IF coord # Null THEN <<[x |-> coord.x, y |-> coord.y, val |-> val]>> ELSE << >>)
             \o RenderData(g, currentTemps, baselineTemps, i + 1)

\* renderHeatmap(timeIndex): the status text, the heatmap and the items
\* afterwards, from the status st, the heatmap hm, the items its
renderHeatmap(g, st, hm, its, lst, timeIndex) ==
    IF Len(g.timePoints) = 0 THEN [statusText |-> st, heatmap |-> hm, items |-> its]
    ELSE LET currentTime == g.timePoints[timeIndex + 1]
             currentTemps == g.allTemperatureData.map[currentTime]
             baselineTemps == IF g.isAnomalyMode THEN BaselineFor(g, currentTime)
                              ELSE Undefined
         IN  [statusText |-> Key(currentTime),
              heatmap |-> [index |-> timeIndex,
                           scale |-> g.currentColorScale,
                           points |-> RenderData(g, currentTemps, baselineTemps, 0)],
              items |-> updateChartsSync(g, its, lst, timeIndex)]

(***************************************************************************)
(* The initial state: init() has set up the layers and the tooltip and     *)
(* awaits the topology document.                                           *)
(***************************************************************************)
Init ==
    /\ pc = "geo"
    /\ statusText = Text("")
    /\ zoomReady = FALSE
    /\ rawCoords = Arr(<< >>)
    /\ screenCoords = << >>
    /\ allTemperatureData = Null
    /\ timePoints = << >>
    /\ baselineData = << >>
    /\ slider = [max |-> 0, value |-> 0, disabled |-> TRUE]
    /\ controlsReady = FALSE
    /\ isPlaying = FALSE
    /\ animationInterval = 0
    /\ timers = {}
    /\ isAnomalyMode = FALSE
    /\ currentColorScale = "absolute"
    /\ legend = "none"
    /\ revealedCountries = {}
    /\ revealedClass = {}
    /\ borderStyle = [c \in CountryIds |-> "default"]
    /\ items = << >>
    /\ list = << >>
    /\ timeouts = {}
    /\ frames = 0
    /\ heatmap = [index |-> -1, scale |-> "none", points |-> << >>]

(***************************************************************************)
(* init and loadTemperatureData: one action for each await.                *)
(***************************************************************************)
\* the topology arrives: renderCountries, setupLegend, and
\* loadTemperatureData runs up to its fetch
GeoLoaded ==
    /\ pc = "geo"
    /\ pc' = "fetch"
    /\ legend' = (IF isAnomalyMode THEN "anomaly" ELSE "absolute")
    /\ statusText' = Text("Downloading data...")
    /\ UNCHANGED <<zoomReady, dataVars, slider, controlsReady, playVars, isAnomalyMode,
                   currentColorScale, countryVars, items, list, timeouts, frames, heatmap>>

\* d3.json rejects: the catch of init replaces the map by an error message
GeoFailed ==
    /\ pc = "geo"
    /\ pc' = "geoFailed"
    /\ UNCHANGED <<statusText, zoomReady, dataVars, slider, controlsReady, playVars,
                   modeVars, countryVars, items, list, timeouts, frames, heatmap>>

\* a variant that reports the error and starts the load again
LoadFailsRetries ==
    /\ pc' = "fetch"
    /\ statusText' = Text("Data Load Failed")
    /\ zoomReady' = TRUE

\* the catch of loadTemperatureData, and init going on to setupZoom
LoadFails ==
    /\ pc' = "failed"
    /\ statusText' = Text("Data Load Failed")
    /\ zoomReady' = TRUE

\* fetch settles: a response that is ok, one that is not, or a rejection
FetchSettled ==
    /\ pc = "fetch"
    /\ \E outcome \in {"ok", "notOk", "rejected"} :
          IF outcome = "ok"
          THEN pc' = "unzip" /\ UNCHANGED <<statusText, zoomReady>>
          ELSE LoadFails
    /\ UNCHANGED <<dataVars, slider, controlsReady, playVars, modeVars, countryVars,
                   items, list, timeouts, frames, heatmap>>

\* response.arrayBuffer() and JSZip.loadAsync settle (nothing runs between
\* the two but the await); then the archive entry is looked up
UnzipSettled ==
    /\ pc = "unzip"
    /\ \E outcome \in {"ok", "noEntry", "rejected"} :
          IF outcome = "ok"
          THEN pc' = "read" /\ statusText' = Text("Processing...") /\ UNCHANGED zoomReady
          ELSE LoadFails
    /\ UNCHANGED <<dataVars, slider, controlsReady, playVars, modeVars, countryVars,
                   items, list, timeouts, frames, heatmap>>

\* jsonFile.async rejects, or JSON.parse throws
ReadFails ==
    /\ pc = "read"
    /\ LoadFails
    /\ UNCHANGED <<dataVars, slider, controlsReady, playVars, modeVars, countryVars,
                   items, list, timeouts, frames, heatmap>>

\* the JSON has no coords: rawCoords is assigned undefined and map throws
ReadNoCoords(parsedData) ==
    /\ pc = "read"
    /\ parsedData.coords = Undefined
    /\ rawCoords' = Undefined
    /\ LoadFails
    /\ UNCHANGED <<screenCoords, allTemperatureData, timePoints, baselineData, slider,
                   controlsReady, playVars, modeVars, countryVars, items, list,
                   timeouts, frames, heatmap>>

\* the JSON has neither temperatures nor data: Object.keys throws
ReadNoTemperatures(parsedData) ==
    /\ pc = "read"
    /\ parsedData.coords # Undefined
    /\ TemperaturesOf(parsedData) = Undefined
    /\ rawCoords' = parsedData.coords
    /\ screenCoords' = ProjectAll(parsedData.coords.items)
    /\ allTemperatureData' = Undefined
    /\ LoadFails
    /\ UNCHANGED <<timePoints, baselineData, slider, controlsReady, playVars, modeVars,
                   countryVars, items, list, timeouts, frames, heatmap>>

\* the JSON is processed: lines 113-141, setupControls and renderHeatmap(0),
\* and init goes on to setupZoom
ReadDone(parsedData) ==
    /\ pc = "read"
    /\ Processable(parsedData)
    /\ LET data == TemperaturesOf(parsedData)
           tp == SortKeys(DOMAIN data.map)
           g == [rawCoords |-> parsedData.coords,
                 screenCoords |-> ProjectAll(parsedData.coords.items),
                 allTemperatureData |-> data,
                 timePoints |-> tp,
                 baselineData |-> ExtractBaseline(tp, data.map, baselineData),
                 isAnomalyMode |-> isAnomalyMode,
                 currentColorScale |-> currentColorScale]
           r == renderHeatmap(g, Text("Processing..."), heatmap, items, list, 0)
       IN  /\ rawCoords' = g.rawCoords
           /\ screenCoords' = g.screenCoords
           /\ allTemperatureData' = g.allTemperatureData
           /\ timePoints' = g.timePoints
           /\ baselineData' = g.baselineData
           /\ slider' = [max |-> Len(tp) - 1, value |-> 0, disabled |-> FALSE]
           /\ controlsReady' = TRUE
           /\ statusText' = r.statusText
           /\ heatmap' = r.heatmap
           /\ items' = r.items
    /\ pc' = "ready"
    /\ zoomReady' = TRUE
    /\ UNCHANGED <<playVars, modeVars, countryVars, list, timeouts, frames>>

(***************************************************************************)
(* Country selection.                                                      *)
(***************************************************************************)
\* the items still referenced: the attached ones, and the detached ones a
\* pending setTimeout callback holds
Live(its, lst, pending) ==
    [i \in {j \in DOMAIN its : j \in Attached(lst) \/ j \in pending} |-> its[i]]

\* an id for a new item: the least that names no item
FreshItem(its) == CHOOSE i \in 1..(MaxItems + 1) : i \notin DOMAIN its /\ \A j \in 1..(i - 1) : j \in DOMAIN its

\* a variant that detaches nothing
removeFromSelectionListKeeps(its, lst, id) == lst

\* removeFromSelectionList(id): the first attached <li> with that country
\* id, if any, is detached
removeFromSelectionList(its, lst, id) ==
    LET hits == {i \in 1..Len(lst) : its[lst[i]].countryId = id}
    IN  IF hits = {} THEN lst
        ELSE LET first == CHOOSE i \in hits : \A j \in hits : i <= j
             IN  SubSeq(lst, 1, first - 1) \o SubSeq(lst, first + 1, Len(lst))

\* a variant that gives the border the revealed stroke whatever isRevealed
updateBorderStyleRevealed(style, countryId, isRevealed) ==
    [style EXCEPT ![countryId] = "revealed"]

\* updateBorderStyle(countryId, isRevealed)
updateBorderStyle(style, countryId, isRevealed) ==
    [style EXCEPT ![countryId] = IF isRevealed THEN "revealed" ELSE "default"]

\* handleClick on the path of a feature (the paths exist once
\* renderCountries has run)
ClickCountry(feature) ==
    /\ pc \notin {"geo", "geoFailed"}
    /\ LET countryId == getCountryId(feature)
       IN  IF countryId \in revealedCountries
           THEN /\ revealedCountries' = revealedCountries \ {countryId}
                /\ revealedClass' = revealedClass \ {countryId}
                /\ list' = removeFromSelectionList(items, list, countryId)
                /\ borderStyle' = updateBorderStyle(borderStyle, countryId, FALSE)
                /\ items' = Live(items, list', timeouts)
                /\ UNCHANGED timeouts
           ELSE LET kept == Live(items, list, timeouts)
                    new == FreshItem(kept)
                IN  /\ Cardinality(DOMAIN kept) < MaxItems
                    /\ revealedCountries' = revealedCountries \cup {countryId}
                    /\ revealedClass' = revealedClass \cup {countryId}
                    \* addToSelectionList: the item is appended and its
                    \* population deferred by setTimeout
                    /\ items' = (new :> NewItem(countryId, feature)) @@ kept
                    /\ list' = Append(list, new)
                    /\ timeouts' = timeouts \cup {new}
                    /\ borderStyle' = updateBorderStyle(borderStyle, countryId, TRUE)
    /\ UNCHANGED <<pc, statusText, zoomReady, dataVars, slider, controlsReady, playVars,
                   modeVars, frames, heatmap>>

\* the remove button of an attached item: removeCountry(id)
RemoveButton(i) ==
    /\ i \in Attached(list)
    /\ pc # "geoFailed"
    /\ LET id == items[i].countryId
       IN  /\ revealedCountries' = revealedCountries \ {id}
           /\ revealedClass' = revealedClass \ {id}
           /\ borderStyle' = updateBorderStyle(borderStyle, id, FALSE)
           /\ list' = removeFromSelectionList(items, list, id)
           /\ items' = Live(items, list', timeouts)
    /\ UNCHANGED <<pc, statusText, zoomReady, dataVars, slider, controlsReady, playVars,
                   modeVars, timeouts, frames, heatmap>>

\* lines 533-540 of the callback, once the statistics call st has returned
\* or thrown: the items afterwards
PopulateChart(g, its, lst, i, sliderValue, cleared, trendData, st) ==
    IF st.threw THEN [its EXCEPT ![i] = [cleared EXCEPT !.stats = st.stats]]
    ELSE updateChartsSync(g,
             [its EXCEPT ![i] = drawDetailedChart(g, [cleared EXCEPT !.stats = st.stats],
                                                  trendData).item],
             lst, sliderValue)

\* lines 529-544 of the callback, once trendData is computed
PopulateWith(g, its, lst, i, sliderValue, trendData) ==
    LET cleared == [its[i] EXCEPT !.html = "empty", !.chart = Null, !.marker = Null,
                                  !.trendData = trendData]
    IN  IF trendData # Null /\ Len(trendData.items) > 0
        THEN PopulateChart(g, its, lst, i, sliderValue, cleared, trendData,
                           updateCountryStats(g, its[i].stats, trendData))
        ELSE [its EXCEPT ![i] = [cleared EXCEPT !.html = "nodata", !.stats.display = "none"]]

\* the callback of the setTimeout of addToSelectionList, lines 525-545:
\* the items afterwards
PopulateItem(g, its, lst, i, sliderValue) ==
    PopulateWith(g, its, lst, i, sliderValue, calculateCountryTrend(g, its[i].featureData))

TimeoutFires(i) ==
    /\ i \in timeouts
    /\ timeouts' = timeouts \ {i}
    /\ items' = PopulateItem(Globals, items, list, i, slider.value)
    /\ UNCHANGED <<pc, statusText, zoomReady, dataVars, slider, controlsReady, playVars,
                   modeVars, countryVars, list, frames, heatmap>>

(***************************************************************************)
(* The time controls.                                                      *)
(***************************************************************************)
\* a variant that wraps one index early
NextValueWrapsEarly(sl) == IF sl.value + 1 >= sl.max THEN 0 ELSE sl.value + 1

\* the interval callback of togglePlay, lines 259-266
NextValue(sl) == IF sl.value + 1 > sl.max THEN 0 ELSE sl.value + 1

\* a variant of the pause that leaves the timer running
PausePlaybackKeepsTimer ==
    /\ isPlaying' = FALSE
    /\ UNCHANGED <<animationInterval, timers>>

\* togglePlay, lines 247-252: pause
PausePlayback ==
    /\ timers' = timers \ {animationInterval}
    /\ isPlaying' = FALSE
    /\ UNCHANGED animationInterval

\* setInterval returns an id that names no running timer: here the least
FreshTimer == CHOOSE t \in 1..(MaxTimers + 1) : t \notin timers /\ \A u \in 1..(t - 1) : u \in timers

\* togglePlay, lines 253-267: play
StartPlayback ==
    /\ Cardinality(timers) < MaxTimers
    /\ isPlaying' = TRUE
    /\ animationInterval' = FreshTimer
    /\ timers' = timers \cup {FreshTimer}

togglePlay == IF isPlaying THEN PausePlayback ELSE StartPlayback

\* a click on #play-btn
PlayClick ==
    /\ controlsReady
    /\ togglePlay
    /\ UNCHANGED <<pc, statusText, zoomReady, dataVars, slider, controlsReady, modeVars,
                   countryVars, items, list, timeouts, frames, heatmap>>

\* the slider is moved to v: the input listener of lines 221-224
SliderInput(v) ==
    /\ controlsReady
    /\ ~slider.disabled
    /\ v \in 0..slider.max
    /\ v # slider.value
    /\ frames < MaxFrames
    /\ slider' = [slider EXCEPT !.value = v]
    /\ IF isPlaying THEN togglePlay ELSE UNCHANGED playVars
    /\ frames' = frames + 1
    /\ UNCHANGED <<pc, statusText, zoomReady, dataVars, controlsReady, modeVars,
                   countryVars, items, list, timeouts, heatmap>>

\* the requestAnimationFrame callback: renderHeatmap(+this.value)
FrameFires ==
    /\ frames > 0
    /\ frames' = frames - 1
    /\ LET r == renderHeatmap(Globals, statusText, heatmap, items, list, slider.value)
       IN  /\ statusText' = r.statusText
           /\ heatmap' = r.heatmap
           /\ items' = r.items
    /\ UNCHANGED <<pc, zoomReady, dataVars, slider, controlsReady, playVars, modeVars,
                   countryVars, list, timeouts>>

\* a tick of the interval timer t
IntervalTick(t) ==
    /\ t \in timers
    /\ \E nextVal \in {NextValue(slider)}, g \in {Globals} :
       \E r \in {renderHeatmap(g, statusText, heatmap, items, list, nextVal)} :
           /\ slider' = [slider EXCEPT !.value = nextVal]
           /\ statusText' = r.statusText
           /\ heatmap' = r.heatmap
           /\ items' = r.items
    /\ UNCHANGED <<pc, zoomReady, dataVars, controlsReady, playVars, modeVars,
                   countryVars, list, timeouts, frames>>

(***************************************************************************)
(* The mode switch.                                                        *)
(***************************************************************************)
\* lines 286-292 for one item, once the statistics call st has returned or
\* thrown: the item afterwards, and whether the body threw
RefreshChart(g, cleared, trendData, st) ==
    IF st.threw THEN [item |-> [cleared EXCEPT !.stats = st.stats], threw |-> TRUE]
    ELSE drawDetailedChart(g, [cleared EXCEPT !.stats = st.stats], trendData)

\* lines 283-292 for one item, once trendData is computed
RefreshWith(g, item, trendData) ==
    RefreshChart(g,
                 [item EXCEPT !.html = "empty", !.chart = Null, !.marker = Null,
                              !.trendData = trendData],
                 trendData,
                 updateCountryStats(g, item.stats, trendData))

\* a variant that recomputes an item only when the mode is switched on
RefreshItemOnlyOn(g, item) ==
    IF g.isAnomalyMode
    THEN RefreshWith(g, item, calculateCountryTrend(g, item.featureData))
    ELSE [item |-> item, threw |-> FALSE]

\* the body of the forEach of toggleAnomalyMode for one item, lines 279-293
RefreshItem(g, item) == RefreshWith(g, item, calculateCountryTrend(g, item.featureData))

\* the forEach of lines 278-294 over the attached items rest, in document
\* order, until a call throws; RefreshRest continues after the body has
\* returned r for the first of rest
RECURSIVE RefreshAll(_, _, _)
RECURSIVE RefreshRest(_, _, _, _)
RefreshRest(g, its, rest, r) ==
    IF r.threw THEN [items |-> [its EXCEPT ![Head(rest)] = r.item], threw |-> TRUE]
    ELSE RefreshAll(g, [its EXCEPT ![Head(rest)] = r.item], Tail(rest))

RefreshAll(g, its, rest) ==
    IF rest = << >> THEN [items |-> its, threw |-> FALSE]
    ELSE RefreshRest(g, its, rest, RefreshItem(g, its[Head(rest)]))

\* lines 296-297 after the forEach has returned refreshed: the mode, the
\* colour scale, the legend, the status text, the heatmap and the items
\* that toggleAnomalyMode leaves; renderHeatmap runs unless the forEach threw
ToggleRendered(g, st, hm, lst, sliderValue, refreshed) ==
    [isAnomalyMode |-> g.isAnomalyMode,
     currentColorScale |-> g.currentColorScale,
     legend |-> g.currentColorScale] @@
    (IF refreshed.threw
     THEN [statusText |-> st, heatmap |-> hm, items |-> refreshed.items]
     ELSE renderHeatmap(g, st, hm, refreshed.items, lst, sliderValue))

\* toggleAnomalyMode(enabled), lines 270-298, run with the globals g0, the
\* status text st, the heatmap hm and the items its of which lst are
\* attached: what it leaves
AnomalyModeToggled(enabled, g0, st, hm, its, lst, sliderValue) ==
    LET scale == IF enabled THEN "anomaly" ELSE "absolute"
        g == [g0 EXCEPT !.isAnomalyMode = enabled, !.currentColorScale = scale]
    IN  ToggleRendered(g, st, hm, lst, sliderValue, RefreshAll(g, its, lst))

\* the change listener of #anomaly-toggle: toggleAnomalyMode(this.checked)
toggleAnomalyMode(enabled) ==
    \E done \in {AnomalyModeToggled(enabled, Globals, statusText, heatmap, items, list,
                                     slider.value)} :
        /\ isAnomalyMode' = done.isAnomalyMode
        /\ currentColorScale' = done.currentColorScale
        /\ legend' = done.legend
        /\ items' = done.items
        /\ statusText' = done.statusText
        /\ heatmap' = done.heatmap

AnomalyChange ==
    /\ controlsReady
    /\ toggleAnomalyMode(~isAnomalyMode)
    /\ UNCHANGED <<pc, zoomReady, dataVars, slider, controlsReady, playVars,
                   countryVars, list, timeouts, frames>>

(***************************************************************************)
(* The specification.                                                      *)
(***************************************************************************)
\* a step of the program with the payload drawn from bundles and the
\* clicked country from features
Step(bundles, features) ==
    \/ GeoLoaded
    \/ GeoFailed
    \/ FetchSettled
    \/ UnzipSettled
    \/ ReadFails
    \/ \E parsedData \in bundles : ReadNoCoords(parsedData)
    \/ \E parsedData \in bundles : ReadNoTemperatures(parsedData)
    \/ \E parsedData \in bundles : ReadDone(parsedData)
    \/ \E feature \in features : ClickCountry(feature)
    \/ \E i \in 1..MaxItems : RemoveButton(i)
    \/ \E i \in 1..MaxItems : TimeoutFires(i)
    \/ PlayClick
    \/ \E v \in 0..3 : SliderInput(v)
    \/ FrameFires
    \/ \E t \in 1..MaxTimers : IntervalTick(t)
    \/ AnomalyChange

Next == Step(Bundles, Features)

Spec == Init /\ [][Next]_vars

\* the runs that follow the playback: setInterval keeps calling the
\* callback of a timer for as long as the timer is not cleared
PlaybackNext == Step(PlaybackBundles, PlaybackFeatures)

FairSpec ==
    /\ Init
    /\ [][PlaybackNext]_vars
    /\ WF_vars(\E t \in 1..MaxTimers : IntervalTick(t))

(***************************************************************************)
(* What the claims speak of, stated apart from the code's own loops.       *)
(***************************************************************************)
Loaded == pc = "ready"

\* the indices of the Sample Points the feature's boundary contains
Contained(feature) ==
    {i \in 0..(Len(rawCoords.items) - 1) : rawCoords.items[i + 1] \in feature.region}

\* the sum of h[i] over the indices i of S
RECURSIVE SumOfSet(_, _)
SumOfSet(S, h) ==
    IF S = {} THEN Num(0)
    ELSE LET i == CHOOSE j \in S : TRUE
         IN  JsAdd(h[i], SumOfSet(S \ {i}, h))

\* the arithmetic mean of h over S
MeanOfSet(S, h) == JsDiv(SumOfSet(S, h), Cardinality(S))

\* the month of a date key: its sixth and seventh characters
MonthChars(dateStr) == SubSeq(dateStr, 6, 7)

\* the series calculateCountryTrend returns in a mode
TrendIn(mode, feature) ==
    calculateCountryTrend([Globals EXCEPT !.isAnomalyMode = mode], feature)

\* an item whose trend has been computed from a loaded dataset
Computed(i) ==
    /\ i \in DOMAIN items
    /\ items[i].trendData # Undefined
    /\ items[i].trendData # Null

\* C1: for a boundary that contains a Sample Point of the loaded dataset,
\* calculateCountryTrend returns, in both modes, one entry for each element
\* of timePoints, the entry at position k carrying the k-th date key, and
\* timePoints is the list of the date keys in lexicographic order
C1_OneEntryPerTimePoint ==
    Loaded =>
        /\ {timePoints[k] : k \in 1..Len(timePoints)} = DOMAIN allTemperatureData.map
        /\ \A k, l \in 1..Len(timePoints) : k < l => LexLess(timePoints[k], timePoints[l])
        /\ \A feature \in Features, mode \in BOOLEAN :
              Contained(feature) # {} =>
                  LET trend == TrendIn(mode, feature)
                  IN  /\ trend # Null
                      /\ Len(trend.items) = Len(timePoints)
                      /\ \A k \in 1..Len(timePoints) : trend.items[k].rawDate = timePoints[k]

\* a three-entry series has been computed for an item in anomaly mode
C1_Witness ==
    /\ Loaded
    /\ isAnomalyMode
    /\ \E i \in DOMAIN items :
          /\ Computed(i)
          /\ Len(items[i].trendData.items) = 3
          /\ items[i].trendData.items[3].rawDate = timePoints[3]

\* C2: for every date key, the value of the series is the arithmetic mean,
\* over exactly the contained indices, of the readings (absolute mode) and
\* of the readings minus the baseline readings of the key's month (anomaly
\* mode), wherever those readings and baseline readings are numbers; on the
\* example dataset the boundary of AAA, which contains only index 0, gives
\* 280 and 282, and a 2016 anomaly of 2
C2_MeanOverContained ==
    Loaded =>
        /\ \A feature \in Features, k \in 1..Len(timePoints) :
              LET S == Contained(feature)
                  temps == allTemperatureData.map[timePoints[k]]
                  month == MonthChars(timePoints[k])
              IN  S # {} =>
                    /\ (\A i \in S : IsNum(At(temps, i))) =>
                          NumEq(TrendIn(FALSE, feature).items[k].val,
                                MeanOfSet(S, [i \in S |-> At(temps, i)]))
                    /\ (/\ month \in DOMAIN baselineData
                        /\ \A i \in S : IsNum(At(temps, i)) /\ IsNum(At(baselineData[month], i))) =>
                          NumEq(TrendIn(TRUE, feature).items[k].val,
                                MeanOfSet(S, [i \in S |->
                                    JsSub(At(temps, i), At(baselineData[month], i))]))
        /\ (rawCoords = ExampleBundle.coords /\ allTemperatureData = ExampleBundle.temperatures) =>
              /\ Contained(FeatureOf("AAA")) = {0}
              /\ NumEq(TrendIn(FALSE, FeatureOf("AAA")).items[1].val, Num(280))
              /\ NumEq(TrendIn(FALSE, FeatureOf("AAA")).items[2].val, Num(282))
              /\ NumEq(TrendIn(TRUE, FeatureOf("AAA")).items[2].val, Num(2))

\* on the example dataset the series of AAA has been computed in anomaly
\* mode, with the 2016 anomaly of 2
C2_Witness ==
    /\ Loaded
    /\ allTemperatureData = ExampleBundle.temperatures
    /\ \E i \in DOMAIN items :
          /\ Computed(i)
          /\ items[i].countryId = "AAA"
          /\ Len(items[i].trendData.items) = 2
          /\ items[i].trendData.items[2].rawDate = PlainKey(2016, 1, 1)
          /\ NumEq(items[i].trendData.items[2].val, Num(2))

\* the indices, in order, of the Sample Points that have a projection
RECURSIVE ProjectableFrom(_)
ProjectableFrom(i) ==
    IF i >= Len(rawCoords.items) THEN << >>
    ELSE (IF rawCoords.items[i + 1] \in OffProjection THEN << >> ELSE <<i>>)
         \o ProjectableFrom(i + 1)

\* C9: screenCoords has an entry for each of the N coordinates, null for
\* exactly the indices whose projection is undefined; the heatmap holds a
\* point for each other index j and none for those, at the screen point of
\* j and, in absolute mode, with the reading at index j; and an index
\* without a projection that the boundary contains is counted in the mean
C9_NullProjectionKeepsIndex ==
    Loaded =>
        /\ Len(screenCoords) = Len(rawCoords.items)
        /\ \A i \in 1..Len(screenCoords) :
              IF rawCoords.items[i] \in OffProjection THEN screenCoords[i] = Null
              ELSE screenCoords[i] = projection(rawCoords.items[i])
        /\ heatmap.index >= 0 =>
              LET drawn == ProjectableFrom(0)
                  temps == allTemperatureData.map[timePoints[heatmap.index + 1]]
              IN  /\ Len(heatmap.points) = Len(drawn)
                  /\ \A n \in 1..Len(drawn) :
                        /\ heatmap.points[n].x = projection(rawCoords.items[drawn[n] + 1]).x
                        /\ heatmap.points[n].y = projection(rawCoords.items[drawn[n] + 1]).y
                        /\ heatmap.scale = "absolute" =>
                              heatmap.points[n].val = At(temps, drawn[n])
        /\ \A feature \in Features, k \in 1..Len(timePoints) :
              LET S == Contained(feature)
                  temps == allTemperatureData.map[timePoints[k]]
              IN  (S # {} /\ \A i \in S : IsNum(At(temps, i))) =>
                      NumEq(TrendIn(FALSE, feature).items[k].val,
                            MeanOfSet(S, [i \in S |-> At(temps, i)]))

\* a dataset with a point off the projection is loaded: the heatmap holds
\* fewer points than there are coordinates, and the series of AAA, which
\* contains that point, has been computed (the mean of 280 and 250)
C9_Witness ==
    /\ Loaded
    /\ \E i \in 1..Len(screenCoords) : screenCoords[i] = Null
    /\ heatmap.index >= 0
    /\ Len(heatmap.points) < Len(rawCoords.items)
    /\ \E i \in DOMAIN items :
          /\ Computed(i)
          /\ items[i].countryId = "AAA"
          /\ NumEq(items[i].trendData.items[1].val, Num(265))

\* C4: at most one interval timer runs, and one runs exactly when
\* isPlaying is true; the running one is the one animationInterval names
C4_OneTimerIffPlaying ==
    /\ Cardinality(timers) <= 1
    /\ (timers # {}) <=> isPlaying
    /\ isPlaying => timers = {animationInterval}

\* playback has been started and then paused by a slider input whose frame
\* is still pending, in anomaly mode: the timer is gone
C4_Witness ==
    /\ ~isPlaying
    /\ animationInterval # 0
    /\ timers = {}
    /\ frames > 0
    /\ isAnomalyMode

\* the number N of time points
N == Len(timePoints)

\* the indices the liveness part of C10 speaks of
Indices == 0..2

\* C10: with N >= 1, a tick of the timer takes the slider from i to i + 1
\* when i < N - 1 and to 0 when i = N - 1 and renders that index; the slider
\* value stays within 0..N-1; and unless playback is paused again and
\* again, every index below N is the rendered one again and again
C10_PlaybackCycles ==
    /\ []((controlsReady /\ N >= 1) => slider.value \in 0..(N - 1))
    /\ [][\A t \in 1..MaxTimers :
            (IntervalTick(t) /\ N >= 1) =>
                /\ slider'.value = (IF slider.value < N - 1 THEN slider.value + 1 ELSE 0)
                /\ heatmap'.index = slider'.value]_vars
    /\ \A k \in Indices : []<>(~isPlaying \/ k >= N \/ heatmap.index = k)

\* playback runs over three time points and has rendered the last index
\* while the frame of an earlier slider input is still pending
C10_Witness ==
    /\ isPlaying
    /\ N = 3
    /\ slider.value = 2
    /\ heatmap.index = 2
    /\ frames = 1

\* the attached items that hold a drawn chart
Drawn == {i \in Attached(list) : items[i].html = "chart"}

\* C3: once the dataset is loaded and no deferred callback is pending, the
\* heatmap shows the slice of the slider value and the marker of every
\* drawn chart stands at the slider value
C3_OneIndex ==
    (Loaded /\ N >= 1 /\ frames = 0 /\ timeouts = {}) =>
        /\ heatmap.index = slider.value
        /\ \A i \in Drawn :
              /\ items[i].marker # Null
              /\ items[i].marker.index = slider.value

\* the series and the statistics of an item are those of a mode
RecomputedIn(g, item) ==
    LET trend == calculateCountryTrend(g, item.featureData)
    IN  /\ item.trendData = trend
        /\ IF trend = Null \/ Len(trend.items) = 0
           THEN item.stats.display = "none"
           ELSE /\ item.stats.display = "flex"
                /\ item.stats.text # Null
                /\ item.stats.text.unit = Unit(g.isAnomalyMode)

\* C5: a step that changes the mode leaves every attached item with the
\* series and the statistics of the new mode, and the heatmap rendered with
\* the new colour scale at the slider value
C5_ToggleRecomputesAll ==
    [][(isAnomalyMode' # isAnomalyMode) =>
          /\ \A i \in Attached(list) :
                RecomputedIn([Globals EXCEPT !.isAnomalyMode = isAnomalyMode'], items'[i])
          /\ N >= 1 =>
                /\ heatmap'.scale = currentColorScale'
                /\ heatmap'.index = slider.value]_vars

\* C6: while loadTemperatureData awaits the fetch, the archive or the JSON
\* text, no click on a country has been handled: nothing is revealed, no
\* item exists and no population callback is pending or has run
C6_NoClickWhileLoading ==
    pc \in {"fetch", "unzip", "read"} =>
        /\ revealedCountries = {}
        /\ DOMAIN items = {}
        /\ timeouts = {}

\* what the document shows of an item
Shown(item) == <<item.html, item.chart, item.marker, item.chartMeta, item.stats>>

\* C7: the population callback of an item that is no longer attached
\* leaves the item as it is
C7_StaleCallbackLeavesItem ==
    [][\A i \in 1..MaxItems :
          (TimeoutFires(i) /\ i \notin Attached(list)) =>
              Shown(items'[i]) = Shown(items[i])]_vars

\* the item is in the "No data" state, its statistics hidden
NoDataState(item) == item.html = "nodata" /\ item.stats.display = "none"

\* the first half of C8: on the loaded dataset calculateCountryTrend returns
\* null exactly for a boundary that contains no Sample Point
SentinelIffNoneContained ==
    Loaded => \A feature \in Features, mode \in BOOLEAN :
                 (TrendIn(mode, feature) = Null) <=> (Contained(feature) = {})

\* C8 as stated: the sentinel is returned exactly when no Sample Point is
\* contained, and the population callback, run on the loaded dataset, ends
\* in the "No data" state exactly when the sentinel is returned
C8_NoDataIffSentinel ==
    /\ []SentinelIffNoneContained
    /\ [][\A i \in 1..MaxItems :
            (TimeoutFires(i) /\ Loaded) =>
                (NoDataState(items'[i]) <=>
                    calculateCountryTrend(Globals, items[i].featureData) = Null)]_vars

\* C8, amended: the population callback ends in the "No data" state exactly
\* when the sentinel or a series without entries is returned, the latter
\* being the case of a boundary with Sample Points in a dataset without
\* date keys
C8_NoDataIffSentinelOrEmpty ==
    /\ []SentinelIffNoneContained
    /\ [][\A i \in 1..MaxItems :
            (TimeoutFires(i) /\ Loaded) =>
                LET trend == calculateCountryTrend(Globals, items[i].featureData)
                IN  /\ NoDataState(items'[i]) <=> (trend = Null \/ Len(trend.items) = 0)
                    /\ (trend # Null /\ Len(trend.items) = 0) <=>
                          (Contained(items[i].featureData) # {} /\ N = 0)]_vars

\* on a loaded dataset without date keys the item of a country that
\* contains a Sample Point has been populated: an empty series, "No data"
C8_Witness ==
    /\ Loaded
    /\ N = 0
    /\ \E i \in Attached(list) :
          /\ Contained(items[i].featureData) # {}
          /\ items[i].trendData = Arr(<< >>)
          /\ NoDataState(items[i])


\* what toggleAnomalyMode(false) leaves when run right after a call of
\* toggleAnomalyMode(true) that has left on
ToggledOff(on) ==
    AnomalyModeToggled(FALSE,
                       [Globals EXCEPT !.isAnomalyMode = on.isAnomalyMode,
                                       !.currentColorScale = on.currentColorScale],
                       on.statusText, on.heatmap, on.items, list, slider.value)

\* what toggleAnomalyMode(true) leaves when run in the current state
ToggledOn ==
    AnomalyModeToggled(TRUE, Globals, statusText, heatmap, items, list, slider.value)

\* the attached items that hold a stored series
Stored == {i \in Attached(list) : items[i].chartMeta # Null}

\* the absolute colour scale is active and every stored series is kept
RoundTrip(off) ==
    /\ off.isAnomalyMode = FALSE
    /\ off.currentColorScale = "absolute"
    /\ off.legend = "absolute"
    /\ \A i \in Stored : off.items[i].chartMeta = items[i].chartMeta

\* the page is in absolute mode: the controls are live, the mode is off and
\* every stored series holds the absolute values of its country
InAbsoluteMode ==
    /\ controlsReady
    /\ ~isAnomalyMode
    /\ \A i \in Stored : items[i].chartMeta.data = TrendIn(FALSE, items[i].featureData)

\* C11: starting in absolute mode, toggleAnomalyMode(true) followed by
\* toggleAnomalyMode(false) leaves the absolute colour scale active, and
\* every attached item holds the stored series, with its absolute values,
\* that it held before the two calls
C11_ToggleRoundTrip == InAbsoluteMode => RoundTrip(ToggledOff(ToggledOn))

\* in absolute mode a country with a stored series stands in the sidebar
\* before a country without Sample Points: the first call replaces the
\* stored series by the anomalies and then throws on the second item
C11_Witness ==
    /\ InAbsoluteMode
    /\ Len(list) = 2
    /\ list[1] \in Stored
    /\ items[list[2]].html = "nodata"
    /\ ToggledOn.items[list[1]].chartMeta # items[list[1]].chartMeta
    /\ ToggledOn.heatmap = heatmap
    /\ ToggledOn.currentColorScale = "anomaly"


\* the revealed class and the border of a country are those of a country
\* that is not revealed
Unrevealed(c) == c \notin revealedClass /\ borderStyle[c] = "default"

\* C12: a click on a country flips its membership of revealedCountries, sets
\* its revealed class and its border stroke by the new membership and
\* leaves the other countries alone; a country that is not revealed has no
\* revealed class and the default stroke. So the second of two successive
\* clicks on a country (reveal, then unreveal) leaves revealedCountries, the
\* class and the stroke as they were before the first
C12_ClickTwiceRestores ==
    /\ [](\A c \in CountryIds : c \notin revealedCountries => Unrevealed(c))
    /\ [][\A feature \in Features :
            ClickCountry(feature) =>
                LET c == getCountryId(feature)
                IN  /\ (c \in revealedCountries') <=> (c \notin revealedCountries)
                    /\ (c \in revealedClass') <=> (c \in revealedCountries')
                    /\ borderStyle'[c] =
                          (IF c \in revealedCountries' THEN "revealed" ELSE "default")
                    /\ revealedCountries' \ {c} = revealedCountries \ {c}
                    /\ revealedClass' \ {c} = revealedClass \ {c}
                    /\ \A d \in CountryIds \ {c} : borderStyle'[d] = borderStyle[d]]_vars

\* a country has been revealed and unrevealed within the 50 ms of its
\* deferred population, while the other country stays revealed
C12_Witness ==
    /\ \E i \in timeouts :
          /\ i \notin Attached(list)
          /\ items[i].countryId \notin revealedCountries
          /\ Unrevealed(items[i].countryId)
    /\ \E c \in revealedCountries : borderStyle[c] = "revealed"

\* how many attached sidebar items carry the country id c
ItemsOf(c) == Cardinality({k \in 1..Len(list) : items[list[k]].countryId = c})

\* C17: a country id is in revealedCountries exactly when one attached
\* sidebar item carries it, and exactly when its border has the revealed
\* stroke; no country id is carried by two attached items
C17_RevealedIffOneItem ==
    \A c \in CountryIds :
        /\ ItemsOf(c) <= 1
        /\ (c \in revealedCountries) <=> (ItemsOf(c) = 1)
        /\ (c \in revealedCountries) <=> (borderStyle[c] = "revealed")

\* after the load one country is revealed, with its populated item attached,
\* and the item of the other has been removed
C17_Witness ==
    /\ Loaded
    /\ Len(list) = 1
    /\ list[1] \notin timeouts
    /\ revealedCountries = {items[list[1]].countryId}
    /\ \E i \in DOMAIN items : i \notin Attached(list)


\* the date key of the slice the heatmap shows
ShownKey == timePoints[heatmap.index + 1]

\* the heatmap shows a slice rendered in anomaly mode
AnomalyShown == heatmap.index >= 0 /\ heatmap.scale = "anomaly"

\* the baseline reading of a month at index i is missing: undefined or null
Missing(month, i) == At(baselineData[month], i) \in {Undefined, Null}

\* C13: in anomaly mode, for a date key whose month has no baseline record,
\* calculateCountryTrend yields 0 for that date and the heatmap shows 0 at
\* every point
C13_ZeroWithoutBaseline ==
    (Loaded /\ isAnomalyMode) =>
        /\ \A feature \in Features, k \in 1..Len(timePoints) :
              (Contained(feature) # {} /\ MonthChars(timePoints[k]) \notin DOMAIN baselineData) =>
                  NumEq(TrendIn(TRUE, feature).items[k].val, Num(0))
        /\ (AnomalyShown /\ MonthChars(ShownKey) \notin DOMAIN baselineData) =>
              \A n \in 1..Len(heatmap.points) : NumEq(heatmap.points[n].val, Num(0))

\* C14: in anomaly mode, where the baseline of a date's month exists and
\* the readings are numbers, calculateCountryTrend yields the mean over the
\* contained indices of reading minus baseline, with 0 for an index whose
\* baseline reading is missing; and the heatmap shows 0 at such an index
C14_MissingBaselineCountsZero ==
    (Loaded /\ isAnomalyMode) =>
        /\ \A feature \in Features, k \in 1..Len(timePoints) :
              LET S == Contained(feature)
                  temps == allTemperatureData.map[timePoints[k]]
                  month == MonthChars(timePoints[k])
              IN  (S # {} /\ month \in DOMAIN baselineData /\ \A i \in S : IsNum(At(temps, i))) =>
                      NumEq(TrendIn(TRUE, feature).items[k].val,
                            MeanOfSet(S, [i \in S |->
                                IF Missing(month, i) THEN Num(0)
                                ELSE JsSub(At(temps, i), At(baselineData[month], i))]))
        /\ (AnomalyShown /\ MonthChars(ShownKey) \in DOMAIN baselineData) =>
              LET drawn == ProjectableFrom(0)
              IN  \A n \in 1..Len(drawn) :
                      Missing(MonthChars(ShownKey), drawn[n]) =>
                          NumEq(heatmap.points[n].val, Num(0))

\* C15: in anomaly mode, for a date key of the baseline year,
\* calculateCountryTrend yields 0 for a country whose contained points have
\* numeric readings and numeric baseline readings, and the heatmap shows 0
\* at every point that has them
C15_SelfBaselineIsZero ==
    (Loaded /\ isAnomalyMode) =>
        /\ \A feature \in Features, k \in 1..Len(timePoints) :
              LET S == Contained(feature)
                  temps == allTemperatureData.map[timePoints[k]]
                  month == MonthChars(timePoints[k])
              IN  (/\ S # {}
                   /\ StartsWith(timePoints[k], BaselineYear)
                   /\ month \in DOMAIN baselineData
                   /\ \A i \in S : IsNum(At(temps, i)) /\ ~Missing(month, i)) =>
                      NumEq(TrendIn(TRUE, feature).items[k].val, Num(0))
        /\ (/\ AnomalyShown
            /\ StartsWith(ShownKey, BaselineYear)
            /\ MonthChars(ShownKey) \in DOMAIN baselineData) =>
              LET drawn == ProjectableFrom(0)
                  temps == allTemperatureData.map[ShownKey]
              IN  \A n \in 1..Len(drawn) :
                      (IsNum(At(temps, drawn[n])) /\ ~Missing(MonthChars(ShownKey), drawn[n])) =>
                          NumEq(heatmap.points[n].val, Num(0))


\* the status area shows the error of the load
FailureShown == statusText = Text("Data Load Failed")

\* no part of a dataset is held: the data variables are as init left them
\* and the controls have not been set up
NothingLoaded ==
    /\ rawCoords = Arr(<< >>)
    /\ screenCoords = << >>
    /\ allTemperatureData = Null
    /\ timePoints = << >>
    /\ baselineData = << >>
    /\ ~controlsReady

\* the stages init and loadTemperatureData go through, each at most once
Stages ==
    { <<"geo", "fetch">>, <<"geo", "geoFailed">>, <<"fetch", "unzip">>, <<"fetch", "failed">>,
      <<"unzip", "read">>, <<"unzip", "failed">>, <<"read", "ready">>, <<"read", "failed">> }

\* C16: when the fetch, the decompression, the lookup of the JSON entry or
\* the read and parse of its text fails, the status text becomes 'Data Load
\* Failed', zoom is set up and no part of a dataset is held; from then on
\* the load stays failed (it is not run again), the status text and the
\* data variables never change, and the error is shown in no other case
C16_LoadFailureIsTerminal ==
    /\ [](pc \in {"fetch", "unzip", "read"} => NothingLoaded /\ ~FailureShown)
    /\ []((pc = "failed") <=> FailureShown)
    /\ [](pc = "failed" => zoomReady)
    /\ [][pc' # pc => <<pc, pc'>> \in Stages]_vars
    /\ [][((FetchSettled \/ UnzipSettled \/ ReadFails) /\ pc' = "failed") =>
              (NothingLoaded /\ FailureShown /\ zoomReady)']_vars
    /\ [][pc = "failed" =>
              (pc' = "failed" /\ UNCHANGED <<statusText, dataVars, controlsReady, heatmap>>)]_vars

\* the fetch, the decompression or the read has failed, and a country
\* revealed afterwards has had its item populated: "No data"
C16_Witness ==
    /\ pc = "failed"
    /\ NothingLoaded
    /\ FailureShown
    /\ zoomReady
    /\ \E i \in Attached(list) : items[i].html = "nodata"


\* the item shows its statistics and a drawn chart with stored metadata
Populated(item) ==
    /\ item.stats.display = "flex"
    /\ item.stats.text # Null
    /\ item.html = "chart"
    /\ item.chartMeta # Null

\* C18: on a loaded dataset with at least one date key, the population
\* callback of an attached item whose country contains a Sample Point
\* leaves the item with its statistics shown and its chart drawn
C18_PopulationCompletes ==
    [][\A i \in 1..MaxItems :
          (/\ TimeoutFires(i)
           /\ Loaded
           /\ N >= 1
           /\ i \in Attached(list)
           /\ Contained(items[i].featureData) # {}) =>
              Populated(items'[i])]_vars

=============================================================================
